---- MODULE Spec2Model ----
(***************************************************************************)
(* Decision-and-plan-execution engine of the agentic CX agent:             *)
(* CXSystemMock (actions.py), ToolRegistry (tools.py), Planner             *)
(* (planner.py), PlanExecutor (executor.py) and DecisionEngine             *)
(* (decision.py).                                                          *)
(*                                                                         *)
(* Encoding of Python values:                                              *)
(*   - a dict is a function whose DOMAIN is the set of keys present;       *)
(*   - None is the empty tuple, and d.get(k) is <<d[k]>> when k is         *)
(*     present and None otherwise, so that a missing key never compares    *)
(*     equal to a present value;                                           *)
(*   - a string built by an f-string is the tuple of its parts, a          *)
(*     literal is a one-part tuple;                                        *)
(*   - a confidence is an integer number of hundredths (0.9 is 90).        *)
(***************************************************************************)
EXTENDS Integers, Sequences, FiniteSets, TLC

VARIABLES cx, artifacts, plan, pc, i, actions_taken, final_ctx, calls, runs,
          dctx, decision, vfy, req, resp

vars == <<cx, artifacts, plan, pc, i, actions_taken, final_ctx, calls, runs,
          dctx, decision, vfy, req, resp>>

(***************************************************************************)
(* Bounds of the model.                                                    *)
(***************************************************************************)
MaxPlanLen == 2

MaxRuns == 2

MaxSlots == 1

MaxSlotList == 2

MaxFairPlanLen == 1

(***************************************************************************)
(* Python helpers.                                                         *)
(***************************************************************************)
None == <<>>

EmptyDict == [k \in {} |-> None]

Get(d, k) == IF k \in DOMAIN d THEN <<d[k]>> ELSE None

GetOr(d, k, default) == IF k \in DOMAIN d THEN d[k] ELSE default

Update(d, e) == [k \in DOMAIN d \cup DOMAIN e |-> IF k \in DOMAIN e THEN e[k] ELSE d[k]]

Take(s, n) == SubSeq(s, 1, IF n < Len(s) THEN n ELSE Len(s))

(***************************************************************************)
(* CXSystemMock: the backing snapshot and the actions over it.             *)
(***************************************************************************)
CustomerIds == {"123", "999"}

Profiles ==
    { [account_status |-> "active", missed_appointment_count |-> 0, loyalty_tier |-> "gold"],
      [account_status |-> "active", missed_appointment_count |-> 3, loyalty_tier |-> "gold"],
      [account_status |-> "suspended", missed_appointment_count |-> 0, loyalty_tier |-> "gold"],
      [account_status |-> "active", missed_appointment_count |-> 1, loyalty_tier |-> "bronze"] }

Customer(cid, p) ==
    [customer_id |-> cid, account_status |-> p.account_status,
     missed_appointment_count |-> p.missed_appointment_count,
     loyalty_tier |-> p.loyalty_tier,
     name |-> <<"name of ", cid>>, email |-> <<"email of ", cid>>,
     phone |-> <<"phone of ", cid>>]

Slot(n) ==
    [slot_id |-> n, service_type |-> "consultation", date_time |-> <<"day ", n>>,
     duration_minutes |-> 30]

Appointment(cid, n, status) ==
    [appointment_id |-> <<"apt_old_", n>>, customer_id |-> cid, status |-> status]

History == [k \in {"123"} |-> <<Appointment("123", 1, "missed"), Appointment("123", 2, "completed")>>]

Snapshots ==
    { [customers |-> cs, available_slots |-> [n \in 1..m |-> Slot(n)],
       customer_appointments |-> History] :
        cs \in { <<Customer("123", p)>> : p \in Profiles },
        m \in 0..MaxSlots }

RECURSIVE FirstMatch(_, _, _)
FirstMatch(s, n, cid) ==
    IF n > Len(s) THEN None
    ELSE IF s[n].customer_id = cid THEN <<s[n]>>
    ELSE FirstMatch(s, n + 1, cid)

get_customer(db, cid) == FirstMatch(db.customers, 1, cid)

check_eligibility(db, cid) ==
    LET customer == get_customer(db, cid) IN
    IF customer = None
    THEN [eligible |-> FALSE, reason |-> <<"Customer not found">>]
    ELSE IF customer[1].account_status # "active"
    THEN [eligible |-> FALSE, reason |-> <<"Account status is ", customer[1].account_status>>]
    ELSE IF customer[1].missed_appointment_count > 2
    THEN [eligible |-> FALSE,
          reason |-> <<"Customer has exceeded missed appointment limit (max 2)">>]
    ELSE IF customer[1].loyalty_tier = "bronze" /\ customer[1].missed_appointment_count > 0
    THEN [eligible |-> FALSE, reason |-> <<"Bronze tier customers cannot rebook after a miss">>]
    ELSE [eligible |-> TRUE, reason |-> <<"Customer is eligible for rebooking">>]

get_available_slots(db, cid, limit) ==
    IF get_customer(db, cid) = None THEN <<>> ELSE Take(db.available_slots, limit)

RECURSIVE FindSlot(_, _, _)
FindSlot(s, n, slot_id) ==
    IF n > Len(s) THEN None
    ELSE IF s[n].slot_id = slot_id THEN <<s[n]>>
    ELSE FindSlot(s, n + 1, slot_id)

\* Mutant: the slot is gone by the time the rebooking is made.
rebook_appointment_slot_gone(db, cid, slot_id, now) ==
    [success |-> FALSE, reason |-> <<"Slot not found">>, appointment_id |-> None]

rebook_appointment(db, cid, slot_id, now) ==
    LET customer == get_customer(db, cid)
        slot == FindSlot(db.available_slots, 1, slot_id) IN
    IF customer = None
    THEN [success |-> FALSE, reason |-> <<"Customer not found">>, appointment_id |-> None]
    ELSE IF slot = None
    THEN [success |-> FALSE, reason |-> <<"Slot not found">>, appointment_id |-> None]
    ELSE [success |-> TRUE,
          reason |-> <<"Appointment successfully rebooked">>,
          appointment_id |-> <<"apt_", now>>,
          appointment_details |->
              [appointment_id |-> <<"apt_", now>>,
               customer_id |-> cid,
               service_type |-> slot[1].service_type,
               scheduled_date |-> slot[1].date_time,
               status |-> "confirmed",
               duration_minutes |-> slot[1].duration_minutes,
               rebooked_from |-> "missed_appointment"]]

send_confirmation(db, cid, appointment_details, now) ==
    LET customer == get_customer(db, cid) IN
    IF customer = None
    THEN [success |-> FALSE, reason |-> <<"Customer not found">>]
    ELSE [success |-> TRUE,
          method |-> "email + SMS",
          recipient |-> [email |-> customer[1].email, phone |-> customer[1].phone],
          appointment_details |->
              [id |-> Get(appointment_details, "appointment_id"),
               date_time |-> Get(appointment_details, "scheduled_date"),
               service_type |-> Get(appointment_details, "service_type")],
          timestamp |-> now]

escalate_to_human(db, cid, reason, now) ==
    LET customer == get_customer(db, cid)
        ticket == [ticket_id |-> <<"esc_", now>>,
                   customer_id |-> cid,
                   customer_name |-> IF customer # None THEN customer[1].name ELSE <<"Unknown">>,
                   priority |-> "normal",
                   reason |-> reason,
                   timestamp |-> now,
                   queue |-> "missed_appointment_specialist",
                   estimated_wait_time_minutes |-> 5] IN
    [success |-> TRUE,
     escalation_ticket |-> ticket,
     message |-> <<"Issue escalated to human agent. Ticket ID: ", ticket.ticket_id>>]

RECURSIVE LastMissed(_, _)
LastMissed(s, n) ==
    IF n = 0 THEN None
    ELSE IF s[n].status = "missed" THEN <<s[n]>>
    ELSE LastMissed(s, n - 1)

get_customer_missed_appointment(db, cid) ==
    LET appointments == GetOr(db.customer_appointments, cid, <<>>) IN
    LastMissed(appointments, Len(appointments))

log_agent_interaction(cid, intent, dec, actions, status, now) ==
    [logged |-> TRUE,
     interaction |-> [timestamp |-> now, customer_id |-> cid, intent |-> intent,
                      decision |-> dec, actions |-> actions, status |-> status]]

(***************************************************************************)
(* ToolRegistry.                                                           *)
(***************************************************************************)
DefaultLimit == 5

RegisteredTools ==
    {"check_eligibility", "get_available_slots", "get_missed_appointment",
     "rebook_appointment", "send_confirmation", "escalate_to_human", "log_interaction"}

\* The parameters a runner subscripts with p[...]: a missing one is a KeyError.
RequiredParams(name) ==
    CASE name = "rebook_appointment" -> {"customer_id", "slot_id"}
      [] name = "send_confirmation" -> {"customer_id", "appointment_details"}
      [] name = "log_interaction" -> {"customer_id", "intent", "decision"}
      [] OTHER -> {"customer_id"}

Runner(name, p, db, now) ==
    CASE name = "check_eligibility" -> check_eligibility(db, p.customer_id)
      [] name = "get_available_slots" ->
            [success |-> TRUE,
             slots |-> get_available_slots(db, p.customer_id, GetOr(p, "limit", DefaultLimit))]
      [] name = "get_missed_appointment" ->
            [success |-> TRUE, missed |-> get_customer_missed_appointment(db, p.customer_id)]
      [] name = "rebook_appointment" -> rebook_appointment(db, p.customer_id, p.slot_id, now)
      [] name = "send_confirmation" ->
            send_confirmation(db, p.customer_id, p.appointment_details, now)
      [] name = "escalate_to_human" ->
            escalate_to_human(db, p.customer_id, GetOr(p, "reason", <<"Escalation">>), now)
      [] name = "log_interaction" ->
            log_agent_interaction(p.customer_id, p.intent, p.decision,
                                  GetOr(p, "actions", <<>>), GetOr(p, "status", "unknown"), now)

UnknownToolPrefix == "Unknown tool: "

\* Mutant: tools.get(name) is subscripted, a KeyError for an unknown tool.
ToolRaises_on_unknown(name, p) ==
    name \notin RegisteredTools \/ ~(RequiredParams(name) \subseteq DOMAIN p)

ToolRaises(name, p) == name \in RegisteredTools /\ ~(RequiredParams(name) \subseteq DOMAIN p)

\* Mutant: the failure of an unknown tool carries no reason.
ToolRun_without_reason(name, p, db, now) ==
    IF name \notin RegisteredTools
    THEN [success |-> FALSE]
    ELSE Runner(name, p, db, now)

ToolRun(name, p, db, now) ==
    IF name \notin RegisteredTools
    THEN [success |-> FALSE, reason |-> <<UnknownToolPrefix, name>>]
    ELSE Runner(name, p, db, now)

(***************************************************************************)
(* Planner.                                                                *)
(***************************************************************************)
Step(tool, params, fixed_params, params_from_prev, expect, on_fail) ==
    [tool |-> tool, params |-> params, fixed_params |-> fixed_params,
     params_from_prev |-> params_from_prev, expect |-> expect, on_fail |-> on_fail]

Fallback(tool, params) == <<[tool |-> tool, params |-> params]>>

RebookIntent == "missed_appointment_rebook"

Intents == {RebookIntent, "acknowledge_missed", "cancel_appointment",
            "reschedule_appointment", "unknown"}

\* Mutant: the slot listing step has lost its on_fail branch.
RebookPlan_without_slot_fallback(customer_id) ==
    << Step("check_eligibility", [customer_id |-> customer_id], EmptyDict, EmptyDict,
            [eligible |-> TRUE],
            Fallback("escalate_to_human",
                     [customer_id |-> customer_id,
                      reason |-> <<"Customer not eligible for rebooking">>])),
       Step("get_available_slots", [customer_id |-> customer_id, limit |-> 5], EmptyDict,
            EmptyDict, [slots_non_empty |-> TRUE], None),
       Step("rebook_appointment", EmptyDict, [customer_id |-> customer_id],
            [slot_id |-> <<"get_available_slots", "slots", 0, "slot_id">>],
            [success |-> TRUE], None),
       Step("send_confirmation", EmptyDict, [customer_id |-> customer_id],
            [appointment_details |-> <<"rebook_appointment", "appointment_details">>],
            [success |-> TRUE], None) >>

RebookPlan(customer_id) ==
    << Step("check_eligibility", [customer_id |-> customer_id], EmptyDict, EmptyDict,
            [eligible |-> TRUE],
            Fallback("escalate_to_human",
                     [customer_id |-> customer_id,
                      reason |-> <<"Customer not eligible for rebooking">>])),
       Step("get_available_slots", [customer_id |-> customer_id, limit |-> 5], EmptyDict,
            EmptyDict, [slots_non_empty |-> TRUE],
            Fallback("escalate_to_human",
                     [customer_id |-> customer_id, reason |-> <<"No available slots">>])),
       Step("rebook_appointment", EmptyDict, [customer_id |-> customer_id],
            [slot_id |-> <<"get_available_slots", "slots", 0, "slot_id">>],
            [success |-> TRUE], None),
       Step("send_confirmation", EmptyDict, [customer_id |-> customer_id],
            [appointment_details |-> <<"rebook_appointment", "appointment_details">>],
            [success |-> TRUE], None) >>

DefaultPlan(customer_id) ==
    << Step("escalate_to_human",
            [customer_id |-> customer_id, reason |-> <<"Intent unknown">>], EmptyDict,
            EmptyDict, [success |-> TRUE], None) >>

Planner_plan(intent, customer_id) ==
    IF intent = RebookIntent THEN RebookPlan(customer_id) ELSE DefaultPlan(customer_id)

(***************************************************************************)
(* Plans handed to the executor: the Planner's plans and hand-built plans  *)
(* over a pool of steps.                                                   *)
(***************************************************************************)
\* Steps of hand-built plans: the Planner's slot listing, rebooking and
\* escalation steps, and steps the Planner does not emit.
StepPool(c) ==
    { RebookPlan(c)[2], RebookPlan(c)[3], DefaultPlan(c)[1] } \cup
    { \* an unregistered tool, without and with a fallback
      Step("no_such_tool", [customer_id |-> c], EmptyDict, EmptyDict, [success |-> TRUE], None),
      Step("no_such_tool", [customer_id |-> c], EmptyDict, EmptyDict, [success |-> TRUE],
           Fallback("no_such_tool", EmptyDict)),
      \* a slot listing whose failure has no fallback and no reason
      Step("get_available_slots", [customer_id |-> c, limit |-> 1], EmptyDict, EmptyDict,
           [slots_non_empty |-> TRUE], None),
      \* a confirmation whose reference has three parts
      Step("send_confirmation", [appointment_details |-> EmptyDict], [customer_id |-> c],
           [appointment_details |-> <<"get_available_slots", "slots", 0>>],
           [success |-> TRUE], None) }

BoundedSeq(S, n) == UNION { [1..m -> S] : m \in 0..n }

\* The customer the hand-built plans are about.
PoolCustomer == "123"

PlanInputs ==
    { Planner_plan(intent, c) : intent \in Intents, c \in CustomerIds } \cup
    BoundedSeq(StepPool(PoolCustomer), MaxPlanLen)

(***************************************************************************)
(* PlanExecutor.                                                           *)
(***************************************************************************)
\* The result keys whose value is a list.
ListKeys == {"slots"}

\* artifacts[src][key] or artifacts[src][key][idx][inner] raises.
RefRaises(spec, arts) ==
    \/ spec[1] \notin DOMAIN arts
    \/ spec[2] \notin DOMAIN arts[spec[1]]
    \/ /\ Len(spec) = 4
       /\ \/ spec[2] \notin ListKeys
          \/ spec[3] + 1 > Len(arts[spec[1]][spec[2]])
          \/ spec[4] \notin DOMAIN arts[spec[1]][spec[2]][spec[3] + 1]

\* Mutant: the index of a reference is ignored and the last element is taken.
RefValue_ignoring_index(spec, arts) ==
    IF Len(spec) = 2 THEN arts[spec[1]][spec[2]]
    ELSE arts[spec[1]][spec[2]][Len(arts[spec[1]][spec[2]])][spec[4]]

RefValue(spec, arts) ==
    IF Len(spec) = 2 THEN arts[spec[1]][spec[2]]
    ELSE arts[spec[1]][spec[2]][spec[3] + 1][spec[4]]

\* The references _resolve_params follows: those of length 2 or 4.
Followed(step) ==
    { k \in DOMAIN step.params_from_prev : Len(step.params_from_prev[k]) \in {2, 4} }

ResolveRaises(step, arts) ==
    \E k \in Followed(step) : RefRaises(step.params_from_prev[k], arts)

resolve_params(step, arts) ==
    Update(Update(step.params, step.fixed_params),
           [k \in Followed(step) |-> RefValue(step.params_from_prev[k], arts)])

\* The result fields that hold a string or None, which are tuples here; the
\* other fields an expect names hold booleans.
StringKeys == {"reason", "appointment_id", "message"}

\* Mutant: the postcondition of a step is not checked.
verify_unchecked(result, expect) == TRUE

\* result.get(key) is None when the key is missing, so a missing key matches
\* an expected None; an expected None is written for string fields only.
verify(result, expect) ==
    \A key \in DOMAIN expect :
        IF key = "slots_non_empty"
        THEN "slots" \in DOMAIN result /\ Len(result.slots) # 0
        ELSE IF key \in DOMAIN result
        THEN result[key] = expect[key]
        ELSE key \in StringKeys /\ expect[key] = None

DefaultReason == <<"Step failed">>

\* Mutant: the fallback branch reports the run as failed.
escalated_ctx_as_failed(fail_result) ==
    [escalation_ticket |-> Get(fail_result, "escalation_ticket"), status |-> "failed"]

\* final_ctx of a run that followed an on_fail branch.
escalated_ctx(fail_result) ==
    [escalation_ticket |-> Get(fail_result, "escalation_ticket"), status |-> "escalated"]

\* Mutant: the failing result's reason is not propagated.
failed_ctx_without_reason(result) ==
    [status |-> "failed", reason |-> DefaultReason]

\* final_ctx of a run whose failing step has no on_fail branch.
failed_ctx(result) ==
    [status |-> "failed", reason |-> GetOr(result, "reason", DefaultReason)]

\* final_ctx of the success path: the well-known artifacts are projected.
resolved_ctx(arts) ==
    Update(Update([status |-> "resolved"],
                  IF "rebook_appointment" \in DOMAIN arts
                  THEN [appointment_details |->
                           Get(arts["rebook_appointment"], "appointment_details")]
                  ELSE EmptyDict),
           IF "send_confirmation" \in DOMAIN arts
           THEN [confirmation |-> arts["send_confirmation"]]
           ELSE EmptyDict)

\* self.artifacts[tool_name] = result
store(arts, tool_name, result) == Update(arts, [k \in {tool_name} |-> result])

\* Mutant: the loop skips a step.
NextIndex_skipping(idx) == idx + 2

\* The for loop moves to the next step of the plan.
NextIndex(idx) == idx + 1

\* Mutant: the return statement is missing and the loop goes on.
AfterReturn_missing == "running"

\* "return actions_taken, final_ctx" inside the loop leaves run.
AfterReturn == "returned"

Call(kind, idx, tool, params, result, ok) ==
    [kind |-> kind, idx |-> idx, tool |-> tool, params |-> params, result |-> result, ok |-> ok]

\* Mutant: a successful rebooking takes its slot out of the available slots.
snapshot_after_consuming(db, cs) ==
    [db EXCEPT !.available_slots =
        SelectSeq(@, LAMBDA sl :
            \A n \in 1..Len(cs) :
                ~(/\ cs[n].tool = "rebook_appointment"
                  /\ cs[n].result.success
                  /\ cs[n].params.slot_id = sl.slot_id))]

\* The snapshot after the calls cs: no method of CXSystemMock assigns to
\* customers, available_slots or customer_appointments; the new appointment
\* is only returned.
snapshot_after(db, cs) == db

\* datetime.now() as the calls of a run read it: requests are served at
\* distinct times, the calls of one request within the same second.
Now == runs

TypeOK ==
    /\ cx \in Snapshots
    /\ pc \in {"idle", "running", "returned", "raised"}
    /\ i \in 1..(Len(plan) + 1)
    /\ runs \in 0..MaxRuns

Init ==
    /\ cx \in Snapshots
    /\ artifacts = EmptyDict
    /\ plan = <<>>
    /\ pc = "idle"
    /\ i = 1
    /\ actions_taken = <<>>
    /\ final_ctx = EmptyDict
    /\ calls = <<>>
    /\ runs = 0
    /\ dctx = None
    /\ decision = None
    /\ vfy = None
    /\ req = None
    /\ resp = None

\* run(plan) is entered: the locals are fresh, self.artifacts is whatever the
\* executor object holds.
StartRun ==
    /\ pc = "idle"
    /\ runs < MaxRuns
    /\ plan' \in PlanInputs
    /\ pc' = "running"
    /\ i' = 1
    /\ actions_taken' = <<>>
    /\ final_ctx' = EmptyDict
    /\ calls' = <<>>
    /\ runs' = runs + 1
    /\ UNCHANGED <<cx, artifacts, dctx, decision, vfy, req, resp>>

\* One iteration of the loop over the plan.
ExecStep ==
    /\ pc = "running"
    /\ i <= Len(plan)
    /\ LET step == plan[i]
           tool_name == step.tool IN
       IF ResolveRaises(step, artifacts)
       THEN /\ pc' = "raised"
            /\ UNCHANGED <<artifacts, i, actions_taken, final_ctx, calls>>
       ELSE LET params == resolve_params(step, artifacts) IN
            IF ToolRaises(tool_name, params)
            THEN /\ pc' = "raised"
                 /\ UNCHANGED <<artifacts, i, actions_taken, final_ctx, calls>>
            ELSE LET result == ToolRun(tool_name, params, cx, Now)
                     arts1 == store(artifacts, tool_name, result)
                     ok == verify(result, step.expect)
                     call == Call("step", i, tool_name, params, result, ok) IN
                 IF ok
                 THEN /\ artifacts' = arts1
                      /\ actions_taken' = Append(actions_taken, tool_name)
                      /\ calls' = Append(calls, call)
                      /\ i' = NextIndex(i)
                      /\ UNCHANGED <<pc, final_ctx>>
                 ELSE IF step.on_fail # None
                 THEN LET on_fail == step.on_fail[1] IN
                      IF ToolRaises(on_fail.tool, on_fail.params)
                      THEN /\ pc' = "raised"
                           /\ artifacts' = arts1
                           /\ actions_taken' = Append(actions_taken, tool_name)
                           /\ calls' = Append(calls, call)
                           /\ UNCHANGED <<i, final_ctx>>
                      ELSE LET fail_result == ToolRun(on_fail.tool, on_fail.params, cx, Now) IN
                           /\ artifacts' = store(arts1, on_fail.tool, fail_result)
                           /\ actions_taken' = Append(Append(actions_taken, tool_name), on_fail.tool)
                           /\ calls' = Append(Append(calls, call),
                                              Call("on_fail", i, on_fail.tool, on_fail.params,
                                                   fail_result, TRUE))
                           /\ final_ctx' = escalated_ctx(fail_result)
                           /\ pc' = AfterReturn
                           /\ UNCHANGED i
                 ELSE /\ artifacts' = arts1
                      /\ actions_taken' = Append(actions_taken, tool_name)
                      /\ calls' = Append(calls, call)
                      /\ final_ctx' = failed_ctx(result)
                      /\ pc' = AfterReturn
                      /\ UNCHANGED i
    /\ cx' = snapshot_after(cx, calls')
    /\ UNCHANGED <<plan, runs, dctx, decision, vfy, req, resp>>

\* The loop is over: the success path.
Finish ==
    /\ pc = "running"
    /\ i > Len(plan)
    /\ final_ctx' = resolved_ctx(artifacts)
    /\ pc' = "returned"
    /\ UNCHANGED <<cx, artifacts, plan, i, actions_taken, calls, runs, dctx, decision, vfy, req, resp>>

\* run has returned or raised: its frame, and with it the locals, is gone.
EndRun ==
    /\ pc \in {"returned", "raised"}
    /\ pc' = "idle"
    /\ plan' = <<>>
    /\ i' = 1
    /\ actions_taken' = <<>>
    /\ final_ctx' = EmptyDict
    /\ calls' = <<>>
    /\ UNCHANGED <<cx, artifacts, runs, dctx, decision, vfy, req, resp>>

Next == StartRun \/ ExecStep \/ Finish \/ EndRun

Spec == Init /\ [][Next]_vars

\* A call of run executes its loop to the end: the interpreter keeps taking
\* the next iteration, and the return after the loop, while the caller is
\* free to make further requests or not.
FairPlanInputs ==
    { Planner_plan(intent, c) : intent \in Intents, c \in CustomerIds } \cup
    BoundedSeq(StepPool(PoolCustomer), MaxFairPlanLen)

StartFairRun ==
    /\ pc = "idle"
    /\ runs < MaxRuns
    /\ plan' \in FairPlanInputs
    /\ pc' = "running"
    /\ i' = 1
    /\ actions_taken' = <<>>
    /\ final_ctx' = EmptyDict
    /\ calls' = <<>>
    /\ runs' = runs + 1
    /\ UNCHANGED <<cx, artifacts, dctx, decision, vfy, req, resp>>

NextFair == StartFairRun \/ ExecStep \/ Finish \/ EndRun

FairSpec == Init /\ [][NextFair]_vars /\ WF_vars(ExecStep) /\ WF_vars(Finish)

(***************************************************************************)
(* GoalDefinition and DecisionEngine.                                      *)
(***************************************************************************)
GoalCatalog == {RebookIntent, "cancel_appointment", "reschedule_appointment", "unknown"}

define_goal(intent) ==
    <<"goal of ", IF intent \in GoalCatalog THEN intent ELSE "unknown">>

DecisionContext(customer_id, intent, customer_data, eligibility, slots, missed) ==
    [customer_id |-> customer_id, intent |-> intent, goal |-> define_goal(intent),
     customer_data |-> customer_data, eligibility |-> eligibility,
     available_slots |-> slots, missed_appointment |-> missed]

Decision(decision_type, reasoning, next_action, confidence) ==
    [decision_type |-> decision_type, reasoning |-> reasoning,
     next_action |-> next_action, confidence |-> confidence]

\* Mutant: the eligibility verdict is not looked at.
is_eligible_unchecked(eligibility) == TRUE

\* eligibility.get("eligible", False)
is_eligible(eligibility) == GetOr(eligibility, "eligible", FALSE)

\* Mutant: the last slot of the list is recommended.
recommend_last(available_slots) == available_slots[Len(available_slots)]

\* available_slots[0]
recommend(available_slots) == available_slots[1]

\* Mutant: customer data is checked before the slots.
decide_rebooking_data_first(context) ==
    IF context.eligibility = None
    THEN Decision("escalate", <<"Unable to verify customer eligibility">>,
                  "escalate_to_human", 40)
    ELSE IF ~is_eligible(context.eligibility[1])
    THEN Decision("escalate",
                  <<"Customer not eligible: ", Get(context.eligibility[1], "reason")>>,
                  "escalate_to_human", 90)
    ELSE IF context.customer_data = None
    THEN Update(Decision("clarify", <<"Need to verify customer identity">>,
                         "ask_for_confirmation", 60),
                [clarification_needed |-> <<"Can you confirm your name and account number?">>])
    ELSE IF context.available_slots = None \/ Len(context.available_slots[1]) = 0
    THEN Decision("escalate", <<"No available appointment slots in the near future">>,
                  "escalate_to_human", 85)
    ELSE Update(Decision("automate",
                         <<"Customer is eligible, slots are available, and data is complete. Proceeding with rebooking.">>,
                         "rebook_appointment", 95),
                [recommended_slot |-> recommend(context.available_slots[1])])

decide_rebooking(context) ==
    IF context.eligibility = None
    THEN Decision("escalate", <<"Unable to verify customer eligibility">>,
                  "escalate_to_human", 40)
    ELSE IF ~is_eligible(context.eligibility[1])
    THEN Decision("escalate",
                  <<"Customer not eligible: ", Get(context.eligibility[1], "reason")>>,
                  "escalate_to_human", 90)
    ELSE IF context.available_slots = None \/ Len(context.available_slots[1]) = 0
    THEN Decision("escalate", <<"No available appointment slots in the near future">>,
                  "escalate_to_human", 85)
    ELSE IF context.customer_data = None
    THEN Update(Decision("clarify", <<"Need to verify customer identity">>,
                         "ask_for_confirmation", 60),
                [clarification_needed |-> <<"Can you confirm your name and account number?">>])
    ELSE Update(Decision("automate",
                         <<"Customer is eligible, slots are available, and data is complete. Proceeding with rebooking.">>,
                         "rebook_appointment", 95),
                [recommended_slot |-> recommend(context.available_slots[1])])

\* Mutant: every intent is handed to the rebooking rules.
evaluate_without_dispatch(context) == decide_rebooking(context)

\* Mutant: an empty slot listing is answered with a request for clarification.
evaluate_clarifying_no_slots(context) ==
    IF context.intent # RebookIntent
    THEN Decision("escalate", <<"Intent not recognized; escalating to specialist">>,
                  "escalate_to_human", 30)
    ELSE IF decide_rebooking(context).confidence = 85
    THEN Decision("clarify", <<"Need to verify customer identity">>, "ask_for_confirmation", 60)
    ELSE decide_rebooking(context)

\* Mutant: the customer's identity is checked before the rebooking rules.
evaluate_identity_first(context) ==
    IF context.intent # RebookIntent
    THEN Decision("escalate", <<"Intent not recognized; escalating to specialist">>,
                  "escalate_to_human", 30)
    ELSE IF context.customer_data = None
    THEN Decision("clarify", <<"Need to verify customer identity">>, "ask_for_confirmation", 60)
    ELSE decide_rebooking(context)

evaluate(context) ==
    IF context.intent = RebookIntent
    THEN decide_rebooking(context)
    ELSE Decision("escalate", <<"Intent not recognized; escalating to specialist">>,
                  "escalate_to_human", 30)

\* DecisionType: the values of the enumeration.
DecisionTypes == {"automate", "clarify", "escalate", "reject"}

\* Mutant: eligibility["eligible"], a KeyError when the key is missing.
eligible_lookup_raises_on_missing(eligibility) == "eligible" \notin DOMAIN eligibility

\* eligibility.get("eligible", False): a lookup with a default does not raise.
eligible_lookup_raises(eligibility) == FALSE

\* available_slots[0] is an IndexError on an empty list.
recommend_raises(available_slots) == Len(available_slots) < 1

\* The lookups of evaluate that can raise, each where the code performs it.
evaluate_raises(context) ==
    /\ context.intent = RebookIntent
    /\ context.eligibility # None
    /\ \/ eligible_lookup_raises(context.eligibility[1])
       \/ /\ is_eligible(context.eligibility[1])
          /\ ~(context.available_slots = None \/ Len(context.available_slots[1]) = 0)
          /\ context.customer_data # None
          /\ recommend_raises(context.available_slots[1])

\* What a call of evaluate leaves its caller with: an exception or a Decision.
Raised == [raised |-> TRUE]

evaluate_outcome(context) == IF evaluate_raises(context) THEN Raised ELSE evaluate(context)

(***************************************************************************)
(* The decision engine on its own: evaluate applied to any context.        *)
(***************************************************************************)
EligibilityInputs ==
    { None, <<EmptyDict>>, <<[reason |-> <<"no verdict">>]>>,
      <<[eligible |-> TRUE, reason |-> <<"Customer is eligible for rebooking">>]>>,
      <<[eligible |-> FALSE, reason |-> <<"Customer not found">>]>>,
      <<[eligible |-> FALSE]>> }

SlotListInputs ==
    {None} \cup { <<l>> : l \in BoundedSeq({ Slot(n) : n \in 1..MaxSlotList }, MaxSlotList) }

CustomerDataInputs == {None} \cup { <<Customer("123", p)>> : p \in Profiles }

MissedInputs == {None, <<Appointment("123", 1, "missed")>>}

IntentInputs == Intents \cup {"billing_question"}

DecisionContexts ==
    { DecisionContext(c, intent, cd, el, sl, ms) :
        c \in {"123"}, intent \in IntentInputs, cd \in CustomerDataInputs,
        el \in EligibilityInputs, sl \in SlotListInputs, ms \in MissedInputs }

NoSnapshot == [customers |-> <<>>, available_slots |-> <<>>, customer_appointments |-> History]

InitDecision ==
    /\ cx = NoSnapshot
    /\ artifacts = EmptyDict
    /\ plan = <<>>
    /\ pc = "idle"
    /\ i = 1
    /\ actions_taken = <<>>
    /\ final_ctx = EmptyDict
    /\ calls = <<>>
    /\ runs = 0
    /\ dctx \in { <<c>> : c \in DecisionContexts }
    /\ decision = None
    /\ vfy = None
    /\ req = None
    /\ resp = None

Evaluate ==
    /\ dctx # None
    /\ decision = None
    /\ decision' = <<evaluate_outcome(dctx[1])>>
    /\ UNCHANGED <<dctx, vfy, req, resp, cx, artifacts, plan, pc, i, actions_taken, final_ctx, calls, runs>>

NextDecision == Evaluate

SpecDecision == InitDecision /\ [][NextDecision]_vars

(***************************************************************************)
(* The registry and the postcondition check on their own: one call of      *)
(* ToolRegistry.run whose result is verified against an expect.            *)
(***************************************************************************)
ToolCall(tool, params) == [tool |-> tool, params |-> params]

\* The appointment details a confirmation is sent for.
DetailsInputs == { EmptyDict, [appointment_id |-> <<"apt_", 1>>, scheduled_date |-> <<"day ", 1>>,
                               service_type |-> "consultation"] }

ToolCallInputs ==
    { ToolCall(t, [customer_id |-> c]) :
        t \in {"check_eligibility", "get_available_slots", "get_missed_appointment",
               "escalate_to_human", "no_such_tool"},
        c \in CustomerIds } \cup
    { ToolCall("get_available_slots", [customer_id |-> c, limit |-> 1]) : c \in CustomerIds } \cup
    { ToolCall("escalate_to_human", [customer_id |-> c, reason |-> <<"No available slots">>]) :
        c \in CustomerIds } \cup
    { ToolCall("rebook_appointment", [customer_id |-> c, slot_id |-> n]) :
        c \in CustomerIds, n \in 1..(MaxSlots + 1) } \cup
    { ToolCall("send_confirmation", [customer_id |-> c, appointment_details |-> d]) :
        c \in CustomerIds, d \in DetailsInputs } \cup
    { ToolCall("log_interaction",
               [customer_id |-> c, intent |-> RebookIntent, decision |-> "planner_execution"]) :
        c \in CustomerIds }

ExpectInputs ==
    { EmptyDict, [success |-> TRUE], [success |-> FALSE], [eligible |-> TRUE],
      [logged |-> TRUE], [slots_non_empty |-> TRUE], [slots_non_empty |-> FALSE],
      [success |-> TRUE, slots_non_empty |-> TRUE], [success |-> TRUE, reason |-> None],
      [reason |-> None], [appointment_id |-> None] }

InitVerify ==
    /\ cx \in Snapshots
    /\ artifacts = EmptyDict
    /\ plan = <<>>
    /\ pc = "idle"
    /\ i = 1
    /\ actions_taken = <<>>
    /\ final_ctx = EmptyDict
    /\ calls = <<>>
    /\ runs = 0
    /\ dctx = None
    /\ decision = None
    /\ vfy \in { <<[call |-> c, expect |-> e]>> : c \in ToolCallInputs, e \in ExpectInputs }
    /\ req = None
    /\ resp = None

\* result = self.tools.run(tool_name, params); self._verify(result, expect)
RunAndVerify ==
    /\ vfy # None
    /\ "result" \notin DOMAIN vfy[1]
    /\ ~ToolRaises(vfy[1].call.tool, vfy[1].call.params)
    /\ LET result == ToolRun(vfy[1].call.tool, vfy[1].call.params, cx, Now) IN
       vfy' = <<Update(vfy[1], [result |-> result, passed |-> verify(result, vfy[1].expect)])>>
    /\ UNCHANGED <<cx, artifacts, plan, pc, i, actions_taken, final_ctx, calls, runs,
                   dctx, decision, req, resp>>

NextVerify == RunAndVerify

SpecVerify == InitVerify /\ [][NextVerify]_vars

(***************************************************************************)
(* IntentDetector and CXAgent: process_customer_message on the single-shot *)
(* path and on the plan path.                                              *)
(***************************************************************************)
MaxAgentSlots == 2

\* The snapshots the agent is constructed on.
AgentSnapshots ==
    { [customers |-> <<Customer("123", p)>>, available_slots |-> [n \in 1..m |-> Slot(n)],
       customer_appointments |-> History] :
        p \in Profiles, m \in 0..MaxAgentSlots }

MissedKeywords == {"missed", "missed my", "didn't make", "couldn't make", "no-show"}

RebookKeywords == {"rebook", "reschedule", "new appointment", "different time"}

CancelKeywords == {"cancel", "cancel appointment", "don't want"}

RescheduleKeywords == {"reschedule", "move", "change time"}

\* A message is the set of keyword phrases its lower-cased text contains.
Messages ==
    { {"missed", "missed my", "rebook"}, {"missed", "reschedule"}, {"missed"}, {"cancel"},
      {"move"}, {} }

detect_intent(message) ==
    LET has_missed == message \cap MissedKeywords # {}
        has_rebook == message \cap RebookKeywords # {} IN
    IF has_missed /\ has_rebook THEN RebookIntent
    ELSE IF has_missed THEN "acknowledge_missed"
    ELSE IF message \cap CancelKeywords # {} THEN "cancel_appointment"
    ELSE IF message \cap RescheduleKeywords # {} THEN "reschedule_appointment"
    ELSE "unknown"

\* AGENTIC_MODE as os.getenv reads it on each request.
Modes == {"single_shot", "agentic"}

Request(customer_id, message, mode) ==
    [customer_id |-> customer_id, message |-> message, intent |-> detect_intent(message),
     mode |-> mode]

\* STEP 3 of process_customer_message: the data gathered for the intent.
gather(db, customer_id, intent) ==
    IF intent = RebookIntent
    THEN [customer_data |-> get_customer(db, customer_id),
          eligibility |-> <<check_eligibility(db, customer_id)>>,
          available_slots |-> <<get_available_slots(db, customer_id, DefaultLimit)>>,
          missed_appointment |-> get_customer_missed_appointment(db, customer_id)]
    ELSE [customer_data |-> get_customer(db, customer_id), eligibility |-> None,
          available_slots |-> None, missed_appointment |-> None]

\* A call the agent makes on the CX system directly.
CxCall(tool, params, result) == Call("cx", 0, tool, params, result, TRUE)

execute_rebooking(db, customer_id, available_slots, dec, now) ==
    LET actions == <<"check_eligibility", "find_available_slots", "rebook_appointment",
                     "send_confirmation">>
        slot == IF "recommended_slot" \in DOMAIN dec THEN dec.recommended_slot
                ELSE available_slots[1]
        rebook_result == rebook_appointment(db, customer_id, slot.slot_id, now)
        rebook_call == CxCall("rebook_appointment",
                              [customer_id |-> customer_id, slot_id |-> slot.slot_id],
                              rebook_result) IN
    IF ~rebook_result.success
    THEN [actions |-> actions, result |-> [error |-> rebook_result.reason],
          calls |-> <<rebook_call>>]
    ELSE LET appointment_details == rebook_result.appointment_details
             confirmation == send_confirmation(db, customer_id, appointment_details, now) IN
         [actions |-> actions,
          result |-> [appointment_details |-> appointment_details,
                      confirmation |-> confirmation],
          calls |-> <<rebook_call,
                      CxCall("send_confirmation",
                             [customer_id |-> customer_id,
                              appointment_details |-> appointment_details],
                             confirmation)>>]

execute_escalation(db, customer_id, dec, now) ==
    LET escalation == escalate_to_human(db, customer_id, dec.reasoning, now) IN
    [actions |-> <<"assess_situation", "escalate_to_human">>,
     result |-> [escalation_ticket |-> escalation.escalation_ticket,
                 message |-> escalation.message],
     calls |-> <<CxCall("escalate_to_human",
                        [customer_id |-> customer_id, reason |-> dec.reasoning],
                        escalation)>>]

\* str.lower() of a string built from parts.
Lower(s) == <<"lower", s>>

generate_explanation(dec) ==
    IF dec.decision_type = "automate"
    THEN <<"I detected that you requested to rebook your missed appointment. You're eligible for rebooking, and I found available slots. I've automatically rebooked your appointment and sent a confirmation to your email and phone.">>
    ELSE IF dec.decision_type = "escalate"
    THEN <<"I understood your request to rebook, but ", Lower(dec.reasoning),
           ". I'm connecting you to a specialist who can help resolve this.">>
    ELSE IF dec.decision_type = "clarify"
    THEN GetOr(dec, "clarification_needed", <<"I need more information to help you.">>)
    ELSE <<"I'm processing your request. Please stand by.">>

\* The optional entries of a response, copied when the key is present.
Optional(d, key, as) == IF key \in DOMAIN d THEN [k \in {as} |-> d[key]] ELSE EmptyDict

\* STEPS 4 to 6 of process_customer_message. The appointment_details and
\* escalation_ticket of a response are optional values on both paths: <<v>>
\* for a value and None for null.
single_shot(db, customer_id, message, now) ==
    LET intent == detect_intent(message)
        data == gather(db, customer_id, intent)
        context == DecisionContext(customer_id, intent, data.customer_data, data.eligibility,
                                   data.available_slots, data.missed_appointment)
        dec == evaluate(context)
        exec == IF dec.decision_type = "automate"
                THEN execute_rebooking(db, customer_id, data.available_slots[1], dec, now)
                ELSE IF dec.decision_type = "escalate"
                THEN execute_escalation(db, customer_id, dec, now)
                ELSE IF dec.decision_type = "clarify"
                THEN [actions |-> <<"ask_for_clarification">>, result |-> EmptyDict,
                      calls |-> <<>>]
                ELSE [actions |-> <<>>, result |-> EmptyDict, calls |-> <<>>]
        status == IF dec.decision_type = "automate" THEN "resolved"
                  ELSE IF dec.decision_type = "escalate" THEN "escalated"
                  ELSE IF dec.decision_type = "clarify" THEN "clarification_needed"
                  ELSE "unknown"
        result == exec.result
        response == [intent |-> intent, goal |-> define_goal(intent),
                     decision |-> dec.reasoning, decision_type |-> dec.decision_type,
                     actions_taken |-> exec.actions, status |-> status,
                     confidence |-> GetOr(dec, "confidence", 0),
                     explanation |-> generate_explanation(dec)]
        wrapped == [k \in DOMAIN result \cap {"escalation_ticket", "appointment_details"} |->
                       <<result[k]>>] IN
    [context |-> context,
     decision |-> dec,
     calls |-> Append(exec.calls,
                      CxCall("log_agent_interaction",
                             [customer_id |-> customer_id, intent |-> intent,
                              decision |-> dec.reasoning],
                             log_agent_interaction(customer_id, intent, dec.reasoning,
                                                   exec.actions, status, now))),
     response |-> Update(Update(Update(response,
                                       Optional(wrapped, "escalation_ticket", "escalation_ticket")),
                                Optional(wrapped, "appointment_details", "appointment_details")),
                         Optional(result, "confirmation", "confirmation_sent"))]

generate_agentic_explanation(intent, status) ==
    IF status = "resolved" /\ intent = RebookIntent
    THEN <<"I created a plan to rebook your missed appointment: checked eligibility, found available slots, rebooked into the nearest slot, and sent a confirmation.">>
    ELSE IF status = "escalated"
    THEN <<"Automated checks did not meet success criteria, so I escalated your case to a human agent.">>
    ELSE <<"I'm processing your request with a planner-driven flow.">>

PlannerDecision == <<"planner_execution">>

\* The response _process_with_planner builds from what run returned.
planner_response(intent, actions, ctx) ==
    LET status == GetOr(ctx, "status", "unknown")
        response == [intent |-> intent, goal |-> define_goal(intent),
                     decision |-> PlannerDecision,
                     decision_type |-> IF status = "resolved" THEN "automate" ELSE "escalate",
                     actions_taken |-> actions, status |-> status,
                     confidence |-> IF status = "resolved" THEN 90 ELSE 60,
                     explanation |-> generate_agentic_explanation(intent, status)] IN
    Update(Update(Update(response, Optional(ctx, "appointment_details", "appointment_details")),
                  Optional(ctx, "confirmation", "confirmation_sent")),
           Optional(ctx, "escalation_ticket", "escalation_ticket"))

InitAgent ==
    /\ cx \in AgentSnapshots
    /\ artifacts = EmptyDict
    /\ plan = <<>>
    /\ pc = "idle"
    /\ i = 1
    /\ actions_taken = <<>>
    /\ final_ctx = EmptyDict
    /\ calls = <<>>
    /\ runs = 0
    /\ dctx = None
    /\ decision = None
    /\ vfy = None
    /\ req = None
    /\ resp = None

\* process_customer_message with AGENTIC_MODE off: the whole request.
ProcessSingleShot ==
    /\ pc = "idle"
    /\ runs < MaxRuns
    /\ \E customer_id \in CustomerIds, message \in Messages :
         LET out == single_shot(cx, customer_id, message, runs + 1) IN
         /\ req' = <<Request(customer_id, message, "single_shot")>>
         /\ dctx' = <<out.context>>
         /\ decision' = <<out.decision>>
         /\ calls' = out.calls
         /\ actions_taken' = out.response.actions_taken
         /\ resp' = <<out.response>>
    /\ runs' = runs + 1
    /\ plan' = <<>>
    /\ i' = 1
    /\ final_ctx' = EmptyDict
    /\ cx' = snapshot_after(cx, calls')
    /\ UNCHANGED <<artifacts, pc, vfy>>

\* process_customer_message with AGENTIC_MODE on, up to the call of
\* executor.run: the data gathered in STEP 3 is read and not used.
RequestAgentic ==
    /\ pc = "idle"
    /\ runs < MaxRuns
    /\ \E customer_id \in CustomerIds, message \in Messages :
         /\ req' = <<Request(customer_id, message, "agentic")>>
         /\ plan' = Planner_plan(detect_intent(message), customer_id)
    /\ resp' = None
    /\ dctx' = None
    /\ decision' = None
    /\ pc' = "running"
    /\ i' = 1
    /\ actions_taken' = <<>>
    /\ final_ctx' = EmptyDict
    /\ calls' = <<>>
    /\ runs' = runs + 1
    /\ UNCHANGED <<cx, artifacts, vfy>>

\* _process_with_planner after run has returned: the response and the log.
Respond ==
    /\ pc = "returned"
    /\ req # None
    /\ resp = None
    /\ LET response == planner_response(req[1].intent, actions_taken, final_ctx) IN
       /\ resp' = <<response>>
       /\ calls' = Append(calls,
                          CxCall("log_agent_interaction",
                                 [customer_id |-> req[1].customer_id, intent |-> req[1].intent,
                                  decision |-> response.decision],
                                 log_agent_interaction(req[1].customer_id, req[1].intent,
                                                       response.decision, actions_taken,
                                                       response.status, Now)))
    /\ pc' = "idle"
    /\ UNCHANGED <<cx, artifacts, plan, i, actions_taken, final_ctx, runs, dctx, decision, vfy, req>>

NextAgent == ProcessSingleShot \/ RequestAgentic \/ ExecStep \/ Finish \/ Respond

SpecAgent == InitAgent /\ [][NextAgent]_vars

(***************************************************************************)
(* Properties of PlanExecutor.run.                                         *)
(***************************************************************************)
Terminal == {"resolved", "escalated", "failed"}

Invoked(tool) == \E n \in 1..Len(calls) : calls[n].tool = tool

PlanTools(k) == [n \in 1..k |-> plan[n].tool]

\* The n-th call of the run is a plan step whose result passes its postcondition.
Passed(n) == calls[n].kind = "step" => verify(calls[n].result, plan[calls[n].idx].expect)

\* The call of plan step k, once it has been invoked.
StepCall(k) == calls[CHOOSE n \in 1..Len(calls) : calls[n].kind = "step" /\ calls[n].idx = k]

\* Step k is the first step of the run whose result fails verification.
FirstFailAt(k) ==
    \E n \in 1..Len(calls) :
        /\ calls[n].kind = "step"
        /\ calls[n].idx = k
        /\ ~verify(calls[n].result, plan[k].expect)
        /\ \A m \in 1..(n - 1) : Passed(m)

\* C1: every run starts with an empty artifact store, and a returned run
\* exposes appointment_details or confirmation only if it invoked the
\* rebooking or the confirmation tool itself.
C1_ArtifactIsolation ==
    /\ (pc = "running" /\ calls = <<>>) => DOMAIN artifacts = {}
    /\ pc = "returned" =>
          /\ "appointment_details" \in DOMAIN final_ctx => Invoked("rebook_appointment")
          /\ "confirmation" \in DOMAIN final_ctx => Invoked("send_confirmation")

\* C2: if step k is the first to fail verification and declares on_fail, no
\* step after k is invoked, the loop has stopped, and the returned run has
\* the first k plan tools followed by the fallback tool as its k+1 actions
\* and status escalated.
C2_FallbackInvariant ==
    \A k \in 1..Len(plan) :
        (FirstFailAt(k) /\ plan[k].on_fail # None) =>
            /\ \A n \in 1..Len(calls) : calls[n].idx <= k
            /\ pc # "running"
            /\ pc = "returned" =>
                  /\ Len(actions_taken) = k + 1
                  /\ actions_taken = PlanTools(k) \o <<plan[k].on_fail[1].tool>>
                  /\ final_ctx.status = "escalated"

C2_Witness ==
    /\ pc = "returned"
    /\ \E k \in 2..(Len(plan) - 1) : FirstFailAt(k) /\ plan[k].on_fail # None

\* C3 as stated: if step k is the first to fail verification and declares no
\* on_fail, the returned run has exactly the first k plan tools as actions,
\* status failed, the reason of the failing result in final_ctx, and no step
\* after k is invoked.
C3_NoFallbackOriginal ==
    \A k \in 1..Len(plan) :
        (FirstFailAt(k) /\ plan[k].on_fail = None) =>
            /\ \A n \in 1..Len(calls) : calls[n].idx <= k
            /\ pc # "running"
            /\ pc = "returned" =>
                  /\ actions_taken = PlanTools(k)
                  /\ final_ctx.status = "failed"
                  /\ Get(final_ctx, "reason") = Get(StepCall(k).result, "reason")

\* C3 amended: as C3, where final_ctx carries the failing result's reason
\* when the result has one and the default "Step failed" when it has none.
C3_NoFallbackInvariant ==
    \A k \in 1..Len(plan) :
        (FirstFailAt(k) /\ plan[k].on_fail = None) =>
            /\ \A n \in 1..Len(calls) : calls[n].idx <= k
            /\ pc # "running"
            /\ pc = "returned" =>
                  /\ Len(actions_taken) = k
                  /\ actions_taken = PlanTools(k)
                  /\ final_ctx.status = "failed"
                  /\ final_ctx.reason =
                        IF "reason" \in DOMAIN StepCall(k).result
                        THEN StepCall(k).result.reason
                        ELSE <<"Step failed">>

C3_Witness ==
    /\ pc = "returned"
    /\ \E k \in 1..(Len(plan) - 1) :
          /\ FirstFailAt(k)
          /\ plan[k].on_fail = None
          /\ "reason" \in DOMAIN StepCall(k).result

\* C4: as long as every result passes verification the steps are invoked
\* once each in plan order, and a run of N steps that all pass returns with
\* the N plan tool names as actions and status resolved.
C4_PlanOrder ==
    (\A n \in 1..Len(calls) : Passed(n)) =>
        /\ Len(calls) <= Len(plan)
        /\ \A n \in 1..Len(calls) :
              calls[n].kind = "step" /\ calls[n].idx = n /\ calls[n].tool = plan[n].tool
        /\ actions_taken = PlanTools(Len(calls))
        /\ pc = "returned" =>
              /\ Len(calls) = Len(plan)
              /\ final_ctx.status = "resolved"

C4_Witness ==
    /\ pc = "returned"
    /\ Len(plan) = 4
    /\ \A n \in 1..Len(calls) : Passed(n)
    /\ actions_taken = PlanTools(4)

C5_StateOK ==
    /\ pc = "running" => "status" \notin DOMAIN final_ctx
    /\ pc = "returned" => "status" \in DOMAIN final_ctx /\ final_ctx.status \in Terminal
    /\ \A m, n \in 1..Len(calls) :
          (m # n /\ calls[m].kind = "step" /\ calls[n].kind = "step") =>
              calls[m].idx # calls[n].idx

\* C5: a run has no status while it is running and takes one transition to
\* resolved, escalated or failed; once the status is set it never changes,
\* no tool is invoked (no call is recorded, no artifact stored) until the
\* run's frame is gone, and no plan step is invoked twice within a run.
C5_RunStateMachine ==
    [][ /\ C5_StateOK
        /\ C5_StateOK'
        /\ pc = "returned" =>
              /\ pc' \in {"returned", "idle"}
              /\ artifacts' = artifacts
              /\ Len(calls') <= Len(calls)
              /\ pc' = "returned" => final_ctx' = final_ctx
        /\ ("status" \in DOMAIN final_ctx /\ "status" \in DOMAIN final_ctx') =>
              final_ctx'.status = final_ctx.status ]_vars

C5_Witness ==
    /\ pc = "returned"
    /\ final_ctx.status = "escalated"
    /\ Len(calls) = 3
    /\ Len(plan) = 4

\* The calls of the run that followed an on_fail branch.
FallbackCalls == { n \in 1..Len(calls) : calls[n].kind = "on_fail" }

\* C15: on a returned run that ended escalated, final_ctx has an
\* escalation_ticket entry exactly when the fallback tool's result has an
\* escalation_ticket field.
C15_TicketOnlyIfPresent ==
    (pc = "returned" /\ final_ctx.status = "escalated") =>
        \A n \in FallbackCalls :
            "escalation_ticket" \in DOMAIN final_ctx <=>
                "escalation_ticket" \in DOMAIN calls[n].result

\* The result of the last call of the tool in this run.
LastResult(tool) ==
    calls[CHOOSE n \in 1..Len(calls) :
            /\ calls[n].tool = tool
            /\ \A m \in (n + 1)..Len(calls) : calls[m].tool # tool].result

\* C16: a resolved run exposes appointment_details exactly when it invoked
\* the rebooking tool and confirmation, the confirmation tool's full result,
\* exactly when it invoked the confirmation tool; an escalated or failed run
\* exposes neither.
C16_Exposure ==
    pc = "returned" =>
        IF final_ctx.status = "resolved"
        THEN /\ "appointment_details" \in DOMAIN final_ctx <=> Invoked("rebook_appointment")
             /\ "confirmation" \in DOMAIN final_ctx <=> Invoked("send_confirmation")
             /\ Invoked("send_confirmation") =>
                    final_ctx.confirmation = LastResult("send_confirmation")
        ELSE /\ "appointment_details" \notin DOMAIN final_ctx
             /\ "confirmation" \notin DOMAIN final_ctx

\* The artifacts the steps of this run have produced.
RunArtifacts == [t \in { calls[n].tool : n \in 1..Len(calls) } |-> LastResult(t)]

\* A reference of the step names a tool without an artifact from this run,
\* or a key, index or inner key that the artifact lacks.
MissingDependency(step) ==
    \E k \in Followed(step) : RefRaises(step.params_from_prev[k], RunArtifacts)

\* C17: when the next step has a reference that the artifacts of this run
\* cannot resolve, the run raises before the step's tool is invoked: no call
\* is made, no artifact is stored and no status is reported.
C17_MissingDependencyFatal ==
    [][ (pc = "running" /\ i <= Len(plan) /\ MissingDependency(plan[i])) =>
            /\ pc' = "raised"
            /\ calls' = calls
            /\ artifacts' = artifacts
            /\ final_ctx' = final_ctx ]_vars

EscalationCalls == { n \in 1..Len(calls) : calls[n].tool = "escalate_to_human" }

\* The run executes a plan the Planner returns.
IsPlannerPlan == \E intent \in Intents, c \in CustomerIds : plan = Planner_plan(intent, c)

\* C18 as stated: in no run, whatever the plan, is the escalation tool
\* invoked more than once, and a run that ends escalated has invoked it
\* exactly once.
C18_EscalationOnceOriginal ==
    /\ Cardinality(EscalationCalls) <= 1
    /\ (pc = "returned" /\ final_ctx.status = "escalated") => Cardinality(EscalationCalls) = 1

\* C18 amended: in any run at most one on_fail branch is followed and no
\* tool is invoked after it; in a run of a plan the Planner returns the
\* escalation tool is invoked at most once, and exactly once when the run
\* ends escalated.
C18_EscalationOnce ==
    /\ Cardinality(FallbackCalls) <= 1
    /\ \A n \in FallbackCalls : n = Len(calls) /\ pc # "running"
    /\ IsPlannerPlan =>
          /\ Cardinality(EscalationCalls) <= 1
          /\ (pc = "returned" /\ final_ctx.status = "escalated") =>
                Cardinality(EscalationCalls) = 1

C18_Witness ==
    /\ pc = "returned"
    /\ plan = Planner_plan(RebookIntent, "123")
    /\ FirstFailAt(1)
    /\ final_ctx.status = "escalated"
    /\ EscalationCalls = {2}

\* A postcondition that passes guarantees the referenced field: slots is
\* non-empty under slots_non_empty, and the other fields of a result come
\* with success true.
Guarantees(expect, key) ==
    IF key = "slots" THEN "slots_non_empty" \in DOMAIN expect
    ELSE "success" \in DOMAIN expect /\ expect.success = TRUE

\* A well-formed plan: every reference has a shape the executor follows and
\* names the tool of an earlier step of the plan whose postcondition
\* guarantees the referenced field, and every step and fallback of a
\* registered tool is given the parameters the tool reads.
WellFormed(p) ==
    \A k \in 1..Len(p) :
        /\ \A name \in DOMAIN p[k].params_from_prev :
              LET ref == p[k].params_from_prev[name] IN
              /\ Len(ref) \in {2, 4}
              /\ \E m \in 1..(k - 1) :
                    /\ p[m].tool = ref[1]
                    /\ Guarantees(p[m].expect, ref[2])
                    /\ \A m2 \in (m + 1)..(k - 1) : p[m2].tool # ref[1]
        /\ p[k].tool \in RegisteredTools =>
              RequiredParams(p[k].tool) \subseteq
                  (DOMAIN p[k].params \cup DOMAIN p[k].fixed_params
                      \cup DOMAIN p[k].params_from_prev)
        /\ (p[k].on_fail # None /\ p[k].on_fail[1].tool \in RegisteredTools) =>
              RequiredParams(p[k].on_fail[1].tool) \subseteq DOMAIN p[k].on_fail[1].params

\* C19: a run of a well-formed plan never raises, whatever its tools report
\* (success false, an unknown tool, an unmet postcondition, a failing
\* fallback), and once started it eventually returns with status resolved,
\* escalated or failed.
C19_Terminates ==
    /\ [](pc = "raised" => ~WellFormed(plan))
    /\ [](pc = "returned" => final_ctx.status \in Terminal)
    /\ (pc = "running" /\ WellFormed(plan)) ~> (pc = "returned" /\ final_ctx.status \in Terminal)

C19_Witness ==
    /\ pc = "returned"
    /\ WellFormed(plan)
    /\ Len(plan) = 1
    /\ plan[1].tool = "no_such_tool"
    /\ plan[1].on_fail # None
    /\ Len(calls) = 2
    /\ final_ctx.status = "escalated"
    /\ runs = 2
    /\ "rebook_appointment" \in DOMAIN artifacts

(***************************************************************************)
(* Properties of the Planner and of ToolRegistry.run.                      *)
(***************************************************************************)
Verified == vfy # None /\ "result" \in DOMAIN vfy[1]

\* The verdict the postcondition rules give: every key of expect passes, where
\* slots_non_empty passes when the result has a non-empty slots list and any
\* other key passes when the result has the key with the expected value.
ClaimedVerdict(result, expect) ==
    \A key \in DOMAIN expect :
        IF key = "slots_non_empty"
        THEN "slots" \in DOMAIN result /\ Len(result.slots) > 0
        ELSE key \in DOMAIN result /\ result[key] = expect[key]

\* C14: a step passes verification exactly when every key of its expect
\* passes: an empty expect always passes, slots_non_empty passes iff the
\* result's slots list is non-empty, and any other key passes iff the result
\* has the key with a value equal to the expected one (a missing key fails).
C14_Verification ==
    Verified => vfy[1].passed = ClaimedVerdict(vfy[1].result, vfy[1].expect)

\* C20: the result of every registered tool has a boolean success field.
C20_SuccessField ==
    (Verified /\ vfy[1].call.tool \in RegisteredTools) =>
        /\ "success" \in DOMAIN vfy[1].result
        /\ vfy[1].result.success \in BOOLEAN

RebookTools ==
    <<"check_eligibility", "get_available_slots", "rebook_appointment", "send_confirmation">>

\* The run executes the plan the Planner returns for the rebooking intent.
IsRebookPlan == \E c \in CustomerIds : plan = Planner_plan(RebookIntent, c)

EscalatesOnFail(step) ==
    /\ step.on_fail # None
    /\ step.on_fail[1].tool = "escalate_to_human"
    /\ "reason" \in DOMAIN step.on_fail[1].params

\* C6 as stated: the rebooking plan is the fixed four-step sequence, each of
\* the four steps has an on_fail branch that invokes the escalation tool
\* with a reason, and a run of it never ends failed.
C6_PlannerTopologyOriginal ==
    IsRebookPlan =>
        /\ Len(plan) = 4
        /\ PlanTools(4) = RebookTools
        /\ \A n \in 1..4 : EscalatesOnFail(plan[n])
        /\ pc = "returned" => final_ctx.status # "failed"

\* C6 amended: the rebooking plan is the fixed four-step sequence; only
\* check_eligibility and get_available_slots have an on_fail branch, which
\* invokes the escalation tool with a reason of its own; rebook_appointment
\* and send_confirmation have none, so a verification failure ends the run
\* escalated at steps 1 and 2 and failed at steps 3 and 4.
C6_PlannerTopology ==
    IsRebookPlan =>
        /\ Len(plan) = 4
        /\ PlanTools(4) = RebookTools
        /\ \A n \in {1, 2} : EscalatesOnFail(plan[n])
        /\ plan[1].on_fail[1].params.reason # plan[2].on_fail[1].params.reason
        /\ \A n \in {3, 4} : plan[n].on_fail = None
        /\ \A k \in 1..4 :
              (FirstFailAt(k) /\ pc = "returned") =>
                  final_ctx.status = IF k <= 2 THEN "escalated" ELSE "failed"

C6_Witness ==
    /\ IsRebookPlan
    /\ pc = "returned"
    /\ FirstFailAt(2)
    /\ final_ctx.status = "escalated"
    /\ actions_taken = <<"check_eligibility", "get_available_slots", "escalate_to_human">>

Unregistered(n) == calls[n].tool \notin RegisteredTools

\* C7 as stated: a call of an unregistered tool returns
\* {success: false, reason: "unknown tool: <name>"}.
C7_UnknownToolOriginal ==
    \A n \in 1..Len(calls) :
        Unregistered(n) =>
            calls[n].result = [success |-> FALSE, reason |-> <<"unknown tool: ", calls[n].tool>>]

\* C7 amended: a call of an unregistered tool never raises and returns
\* {success: false, reason: "Unknown tool: <name>"}; a plan step naming such
\* a tool goes through the normal path: when its postcondition is unmet the
\* run ends escalated through on_fail, or failed with that reason.
C7_UnknownTool ==
    /\ \A n \in 1..Len(calls) :
          Unregistered(n) =>
              /\ calls[n].result =
                    [success |-> FALSE, reason |-> <<"Unknown tool: ", calls[n].tool>>]
              /\ (calls[n].kind = "step" /\ ~Passed(n)) =>
                    /\ pc # "running"
                    /\ pc = "returned" =>
                          IF plan[calls[n].idx].on_fail # None
                          THEN final_ctx.status = "escalated"
                          ELSE /\ final_ctx.status = "failed"
                               /\ final_ctx.reason = calls[n].result.reason
    /\ pc = "raised" => plan[i].tool \in RegisteredTools

C7_Witness ==
    /\ pc = "returned"
    /\ \E n \in 1..Len(calls) : Unregistered(n) /\ calls[n].kind = "step"
    /\ final_ctx.status = "failed"
    /\ final_ctx.reason = <<"Unknown tool: ", "no_such_tool">>

(***************************************************************************)
(* Properties of DecisionEngine.evaluate.                                  *)
(***************************************************************************)
Evaluated == dctx # None /\ decision # None

HasVerdict(context, verdict) ==
    /\ context.eligibility # None
    /\ "eligible" \in DOMAIN context.eligibility[1]
    /\ context.eligibility[1].eligible = verdict

HasSlots(context) == context.available_slots # None /\ Len(context.available_slots[1]) > 0

\* C11: for every intent outside the goal catalog the decision is escalate
\* with the intent-not-recognized reasoning and confidence 0.3, whatever
\* eligibility, slots, customer data and missed appointment the context has.
C11_UnknownIntent ==
    (Evaluated /\ dctx[1].intent \notin GoalCatalog) =>
        /\ decision[1].decision_type = "escalate"
        /\ decision[1].reasoning = <<"Intent not recognized; escalating to specialist">>
        /\ decision[1].confidence = 30

C11_Witness ==
    /\ Evaluated
    /\ dctx[1].intent = "billing_question"
    /\ HasVerdict(dctx[1], TRUE)
    /\ HasSlots(dctx[1])
    /\ dctx[1].customer_data # None
    /\ decision[1].confidence = 30

\* C12: every evaluation returns: it raises for no context, and the Decision
\* it returns has one decision type among automate, clarify, escalate and
\* reject and a confidence between 0 and 1 (0 to 100 hundredths), also when
\* the eligibility record has no eligible key or optional fields are absent.
C12_Total ==
    Evaluated =>
        /\ "raised" \notin DOMAIN decision[1]
        /\ {"decision_type", "reasoning", "next_action", "confidence"} \subseteq DOMAIN decision[1]
        /\ decision[1].decision_type \in DecisionTypes
        /\ decision[1].confidence \in 0..100

C12_Witness ==
    /\ Evaluated
    /\ dctx[1].intent = RebookIntent
    /\ dctx[1].eligibility = <<EmptyDict>>
    /\ dctx[1].available_slots = None
    /\ dctx[1].customer_data = None
    /\ decision[1].decision_type = "escalate"
    /\ decision[1].confidence = 90

\* C8 as stated: whenever eligibility is present with eligible false, the
\* decision is escalate with confidence 0.9, whatever the intent.
C8_IneligibleOriginal ==
    (Evaluated /\ HasVerdict(dctx[1], FALSE)) =>
        decision[1].decision_type = "escalate" /\ decision[1].confidence = 90

\* C8 amended: for the rebooking intent, whenever eligibility is present
\* with eligible false, the decision is escalate with confidence 0.9,
\* whatever the slots, customer data and missed appointment.
C8_Ineligible ==
    (Evaluated /\ dctx[1].intent = RebookIntent /\ HasVerdict(dctx[1], FALSE)) =>
        decision[1].decision_type = "escalate" /\ decision[1].confidence = 90

C8_Witness ==
    /\ Evaluated
    /\ dctx[1].intent = RebookIntent
    /\ HasVerdict(dctx[1], FALSE)
    /\ HasSlots(dctx[1])
    /\ dctx[1].customer_data # None
    /\ decision[1].confidence = 90

\* C9 as stated: whenever eligible is true, the slots are non-empty and
\* customer data is present, the decision is automate with confidence 0.95
\* and recommends the first slot of the list.
C9_AutomateOriginal ==
    (Evaluated /\ HasVerdict(dctx[1], TRUE) /\ HasSlots(dctx[1])
        /\ dctx[1].customer_data # None) =>
        /\ decision[1].decision_type = "automate"
        /\ decision[1].confidence = 95
        /\ Get(decision[1], "recommended_slot") = <<dctx[1].available_slots[1][1]>>

\* C9 amended: for the rebooking intent, whenever eligible is true, the
\* slots are non-empty and customer data is present, the decision is
\* automate with confidence 0.95 and recommends the first slot of the list.
C9_Automate ==
    (Evaluated /\ dctx[1].intent = RebookIntent /\ HasVerdict(dctx[1], TRUE)
        /\ HasSlots(dctx[1]) /\ dctx[1].customer_data # None) =>
        /\ decision[1].decision_type = "automate"
        /\ decision[1].confidence = 95
        /\ Get(decision[1], "recommended_slot") = <<dctx[1].available_slots[1][1]>>

C9_Witness ==
    /\ Evaluated
    /\ dctx[1].intent = RebookIntent
    /\ HasVerdict(dctx[1], TRUE)
    /\ dctx[1].customer_data # None
    /\ dctx[1].available_slots = << <<Slot(2), Slot(1)>> >>
    /\ Get(decision[1], "recommended_slot") = <<Slot(2)>>

\* C10: for the rebooking intent the decision is that of the first rule
\* that matches: eligibility absent, escalate 0.4; eligible false, escalate
\* 0.9; slots absent or empty, escalate 0.85; customer data absent, clarify
\* 0.6 with a clarification prompt; otherwise automate.
C10_RuleOrder ==
    (Evaluated /\ dctx[1].intent = RebookIntent
        /\ (dctx[1].eligibility = None \/ "eligible" \in DOMAIN dctx[1].eligibility[1])) =>
        IF dctx[1].eligibility = None
        THEN decision[1].decision_type = "escalate" /\ decision[1].confidence = 40
        ELSE IF dctx[1].eligibility[1].eligible = FALSE
        THEN decision[1].decision_type = "escalate" /\ decision[1].confidence = 90
        ELSE IF ~HasSlots(dctx[1])
        THEN decision[1].decision_type = "escalate" /\ decision[1].confidence = 85
        ELSE IF dctx[1].customer_data = None
        THEN /\ decision[1].decision_type = "clarify"
             /\ decision[1].confidence = 60
             /\ "clarification_needed" \in DOMAIN decision[1]
        ELSE decision[1].decision_type = "automate"

C10_Witness ==
    /\ Evaluated
    /\ dctx[1].intent = RebookIntent
    /\ HasVerdict(dctx[1], TRUE)
    /\ dctx[1].available_slots = <<<<>>>>
    /\ dctx[1].customer_data = None
    /\ decision[1].confidence = 85

(***************************************************************************)
(* Properties of CXAgent.process_customer_message.                         *)
(***************************************************************************)
Answered == req # None /\ resp # None

SingleShot == Answered /\ req[1].mode = "single_shot"

Agentic == Answered /\ req[1].mode = "agentic"

SuccessfulRebookings(cs) ==
    { n \in 1..Len(cs) : cs[n].tool = "rebook_appointment" /\ cs[n].result.success }

Offered(db, customer_id, slot_id) ==
    \E k \in 1..Len(get_available_slots(db, customer_id, DefaultLimit)) :
        get_available_slots(db, customer_id, DefaultLimit)[k].slot_id = slot_id

\* C21: no step of a request on either path changes the snapshot (customers,
\* available slots, appointment history), and a slot that a successful
\* rebooking has handed out is still offered afterwards.
C21_SnapshotReadOnly ==
    [][/\ cx' = cx
       /\ \A n \in SuccessfulRebookings(calls') :
            Offered(cx', calls'[n].params.customer_id, calls'[n].params.slot_id)]_vars

\* A second request is offered the slot the first request's rebooking took.
C21_Witness ==
    /\ runs = 2
    /\ pc = "running"
    /\ i = 3
    /\ "rebook_appointment" \in DOMAIN artifacts
    /\ artifacts["rebook_appointment"].success
    /\ artifacts["rebook_appointment"].appointment_id = <<"apt_", 1>>
    /\ calls[2].tool = "get_available_slots"
    /\ calls[2].result.slots[1].date_time =
           artifacts["rebook_appointment"].appointment_details.scheduled_date

\* A rebooking request from an eligible customer with at least one slot.
ScenarioA ==
    /\ Answered
    /\ req[1].intent = RebookIntent
    /\ check_eligibility(cx, req[1].customer_id).eligible
    /\ Len(get_available_slots(cx, req[1].customer_id, DefaultLimit)) > 0

\* C22: on the plan path Scenario A invokes check_eligibility,
\* get_available_slots, rebook_appointment, send_confirmation in that order,
\* ends resolved, books the first listed slot and exposes appointment details
\* with status confirmed together with a confirmation.
C22_ScenarioA ==
    (ScenarioA /\ Agentic) =>
        /\ resp[1].actions_taken = <<"check_eligibility", "get_available_slots",
                                     "rebook_appointment", "send_confirmation">>
        /\ \A n \in 1..4 : calls[n].kind = "step" /\ calls[n].tool = resp[1].actions_taken[n]
        /\ resp[1].status = "resolved"
        /\ calls[3].params.slot_id = cx.available_slots[1].slot_id
        /\ calls[3].result.success
        /\ "appointment_details" \in DOMAIN resp[1]
        /\ resp[1].appointment_details # None
        /\ resp[1].appointment_details[1].status = "confirmed"
        /\ resp[1].appointment_details[1].scheduled_date = cx.available_slots[1].date_time
        /\ "confirmation_sent" \in DOMAIN resp[1]
        /\ resp[1].confirmation_sent = calls[4].result
        /\ resp[1].confirmation_sent.success

C22_Witness ==
    /\ ScenarioA
    /\ Agentic
    /\ Len(cx.available_slots) > 1
    /\ resp[1].status = "resolved"

\* C23: for a rebooking request from an eligible customer with available
\* slots the response has status resolved, decision_type automate, a
\* confidence strictly greater than 0.9 and non-null appointment_details and
\* confirmation_sent, on the rule path and on the plan path alike.
C23_AutomaticResolution ==
    ScenarioA =>
        /\ resp[1].status = "resolved"
        /\ resp[1].decision_type = "automate"
        /\ resp[1].confidence > 90
        /\ "appointment_details" \in DOMAIN resp[1]
        /\ resp[1].appointment_details # None
        /\ "confirmation_sent" \in DOMAIN resp[1]

\* The eligibility check of the request reported eligible false.
Ineligible ==
    /\ SingleShot
    /\ dctx[1].eligibility # None
    /\ ~dctx[1].eligibility[1].eligible

\* C24: on the single-shot path, when the eligibility check reports eligible
\* false the response has decision_type escalate, status escalated,
\* confidence 0.9, an escalation ticket, a decision string that includes the
\* eligibility reason and no appointment_details; one escalation ticket is
\* created and no rebooking is attempted.
C24_IneligibleEscalates ==
    Ineligible =>
        /\ resp[1].decision_type = "escalate"
        /\ resp[1].status = "escalated"
        /\ resp[1].confidence = 90
        /\ "escalation_ticket" \in DOMAIN resp[1]
        /\ resp[1].escalation_ticket # None
        /\ resp[1].decision[2] = <<dctx[1].eligibility[1].reason>>
        /\ "appointment_details" \notin DOMAIN resp[1]
        /\ Cardinality(EscalationCalls) = 1
        /\ resp[1].escalation_ticket[1] = calls[CHOOSE n \in EscalationCalls : TRUE].result.escalation_ticket
        /\ ~Invoked("rebook_appointment")

\* The customer is not in the snapshot.
C24_Witness ==
    /\ Ineligible
    /\ dctx[1].customer_data = None
    /\ dctx[1].eligibility[1].reason = <<"Customer not found">>
    /\ resp[1].status = "escalated"

\* C25: on the single-shot path, for an eligible customer and an empty slot
\* listing, the response has decision_type escalate, confidence 0.85, status
\* escalated and no appointment_details, and the rebooking is never invoked.
NoSlots ==
    /\ SingleShot
    /\ dctx[1].eligibility # None
    /\ dctx[1].eligibility[1].eligible
    /\ dctx[1].available_slots = <<<<>>>>

C25_NoSlotsEscalates ==
    NoSlots =>
        /\ resp[1].decision_type = "escalate"
        /\ resp[1].confidence = 85
        /\ resp[1].status = "escalated"
        /\ "appointment_details" \notin DOMAIN resp[1]
        /\ ~Invoked("rebook_appointment")

C25_Witness ==
    /\ NoSlots
    /\ resp[1].status = "escalated"
    /\ Invoked("escalate_to_human")

\* Every reference of the plan p names the tool of an earlier step of p.
EarlierOnly(p) ==
    \A n \in 1..Len(p) : \A k \in DOMAIN p[n].params_from_prev :
        \E m \in 1..(n - 1) : p[m].tool = p[n].params_from_prev[k][1]

\* C26: every reference of a plan the Planner emits names a tool placed
\* strictly earlier in the same plan, and in a run of such a plan resolution
\* never fails: when a referencing step is reached the referenced step has
\* executed and passed verification, and the referenced key, index and inner
\* key exist in its artifact.
C26_PlannerReferences ==
    /\ \A intent \in Intents, c \in CustomerIds : EarlierOnly(Planner_plan(intent, c))
    /\ IsPlannerPlan => pc # "raised"
    /\ (IsPlannerPlan /\ pc = "running" /\ i <= Len(plan)) =>
          \A k \in DOMAIN plan[i].params_from_prev :
              LET ref == plan[i].params_from_prev[k] IN
              /\ \E n \in 1..Len(calls) :
                    /\ calls[n].kind = "step"
                    /\ calls[n].idx < i
                    /\ calls[n].tool = ref[1]
                    /\ calls[n].ok
              /\ ~RefRaises(ref, artifacts)

\* The last step of the rebooking plan is reached in a fresh run.
C26_Witness ==
    /\ runs = 1
    /\ plan = RebookPlan("123")
    /\ pc = "running"
    /\ i = 4
    /\ DOMAIN plan[i].params_from_prev # {}
    /\ Len(calls) = 3

\* C27: on the plan path, whenever escalate_to_human is invoked during a run,
\* as a fallback or as an ordinary step, the response reports status
\* escalated and decision_type escalate and carries the escalation ticket.
C27_EscalationReported ==
    (Agentic /\ Invoked("escalate_to_human")) =>
        /\ resp[1].status = "escalated"
        /\ resp[1].decision_type = "escalate"
        /\ "escalation_ticket" \in DOMAIN resp[1]
        /\ resp[1].escalation_ticket # None

\* C28: on the single-shot path the decision type is automate or escalate
\* for every customer id and message: customer data is absent only when the
\* eligibility check reports eligible false, and the status is never
\* clarification_needed and never left at unknown.
C28_ClarifyUnreachable ==
    SingleShot =>
        /\ decision[1].decision_type \in {"automate", "escalate"}
        /\ resp[1].decision_type = decision[1].decision_type
        /\ resp[1].status \notin {"clarification_needed", "unknown"}
        /\ (dctx[1].customer_data = None /\ dctx[1].eligibility # None) =>
               ~dctx[1].eligibility[1].eligible

C28_Witness ==
    /\ SingleShot
    /\ req[1].customer_id = "999"
    /\ req[1].intent = RebookIntent
    /\ dctx[1].customer_data = None
    /\ resp[1].actions_taken = <<"assess_situation", "escalate_to_human">>

Resolvable(ref, arts) ==
    /\ ref[1] \in DOMAIN arts
    /\ ref[2] \in DOMAIN arts[ref[1]]
    /\ Len(ref) >= 3 => ref[2] \in ListKeys /\ ref[3] + 1 <= Len(arts[ref[1]][ref[2]])
    /\ Len(ref) = 4 => ref[4] \in DOMAIN arts[ref[1]][ref[2]][ref[3] + 1]

Denotes(ref, arts) ==
    IF Len(ref) = 2 THEN arts[ref[1]][ref[2]]
    ELSE IF Len(ref) = 3 THEN arts[ref[1]][ref[2]][ref[3] + 1]
    ELSE arts[ref[1]][ref[2]][ref[3] + 1][ref[4]]

\* C30: for every step and every entry of its params_from_prev, either the
\* parameters passed to the tool bind that name to the referenced artifact
\* value, overriding a fixed parameter of the same name, or the run fails
\* fatally; no reference shape is silently dropped.
C30_WiringComplete ==
    [][(pc = "running" /\ i <= Len(plan) /\ pc' # "raised") =>
          \A k \in DOMAIN plan[i].params_from_prev :
              LET ref == plan[i].params_from_prev[k]
                  p == calls'[Len(calls) + 1].params IN
              /\ Resolvable(ref, artifacts)
              /\ k \in DOMAIN p
              /\ p[k] = Denotes(ref, artifacts)]_vars
====
